---- MODULE Spec2Model ----
(***************************************************************************)
(* fqfilter: the synchronized multi-stream FASTQ record filter of          *)
(* src/fqfilter.go (func main).                                            *)
(*                                                                         *)
(* A line is a sequence of one-character strings.  A scanner yields the    *)
(* lines of its stream one by one; the contents of a stream are chosen     *)
(* line by line as the scanner advances, so the history `consumed` is the  *)
(* prefix of the input the pass has read.  A sink is the flat sequence of  *)
(* characters written to it, newline characters included.                  *)
(***************************************************************************)
EXTENDS Integers, Sequences, FiniteSets, TLC

\* ------------------------------------------------------------------ bounds

\* The input streams hold at most MaxLines lines altogether.
MaxLines == 11
\* -limit is drawn from 0 .. MaxLimit (0: no limit).
MaxLimit == 1
\* The name list holds at most MaxNames lines.
MaxNames == 1
\* Under a faulty environment: the input streams hold at most MaxIOLines lines
\* altogether and the name list at most MaxIONames lines.
MaxIOLines == 3
MaxIONames == 2

\* --------------------------------------------------------------- alphabets

NL == "\n"
TAB == "\t"

\* Lines a stream may hold at a header position (line_num % 4 = 0): two
\* distinct names, one of them with a second whitespace-delimited word, a
\* header with an empty name, and a line without the '@' sentinel.
HeaderLines == { <<"@", "a">>, <<"@", "b", " ", "c">>, <<"@">>, <<"a">> }
\* Lines a stream may hold at a sequence position; one of them starts with '@'.
SequenceLines == { <<"a">>, <<"@", "a">> }
\* Lines a stream may hold at a separator position.
SepLines == { <<"+">> }
\* Lines a stream may hold at a quality position; it starts with '@'.
QualityLines == { <<"@", "c">> }

LinesAt(pos) ==
  CASE pos % 4 = 0 -> HeaderLines
    [] pos % 4 = 1 -> SequenceLines
    [] pos % 4 = 2 -> SepLines
    [] OTHER -> QualityLines

\* Lines of the name list: a name of two whitespace-delimited words.
NameLines == { <<"b", " ", "c">> }

RECURSIVE SeqsUpTo(_, _)
SeqsUpTo(S, n) ==
  IF n = 0 THEN { <<>> }
  ELSE LET shorter == SeqsUpTo(S, n - 1)
       IN shorter \cup { Append(q, e) : q \in shorter, e \in S }

NameLists == SeqsUpTo(NameLines, MaxNames)

\* Lines of the name list, an empty and a whitespace-only line among them.
IndexLines == NameLines \cup { <<"a">>, <<>>, << " " >> }

IndexLists == SeqsUpTo(IndexLines, MaxIONames)

\* ------------------------------------------------------------ pure helpers

\* strings.HasPrefix(line, "@")
HasPrefix(line) == Len(line) >= 1 /\ line[1] = "@"

IsSpace(c) == c \in { " ", TAB }

\* strings.Fields(s): the maximal runs of non-space characters of s, in order.
RECURSIVE FieldsFrom(_, _, _)
FieldsFrom(s, k, cur) ==
  IF k > Len(s)
    THEN (IF cur = <<>> THEN <<>> ELSE <<cur>>)
    ELSE IF IsSpace(s[k])
      THEN (IF cur = <<>> THEN <<>> ELSE <<cur>>) \o FieldsFrom(s, k + 1, <<>>)
      ELSE FieldsFrom(s, k + 1, Append(cur, s[k]))

Fields(s) == FieldsFrom(s, 1, <<>>)

\* strings.Fields(name)[0] panics (index out of range) when name has no field.
FieldsPanics(name) == Fields(name) = <<>>

\* name = strings.Fields(name)[0] under -short-name, else name itself.
ShortNameOf(short, name) ==
  IF short /\ ~FieldsPanics(name) THEN Fields(name)[1] ELSE name

\* line[1:len(line)]
StripSentinel(line) == Tail(line)

\* The name-list loop: filter[name] = true for every line of the list.
BuildFilter(short, list) ==
  { ShortNameOf(short, list[k]) : k \in 1 .. Len(list) }

\* Whether the name-list loop panics: a line without a field under -short-name.
BuildPanics(short, list) ==
  short /\ \E k \in 1 .. Len(list) : FieldsPanics(list[k])

Streams(a) == 0 .. (a.nfq - 1)

\* The file handles of the process: inputs[s], outputs[s], reads.
InHandle(s) == IF s = 0 THEN "in0" ELSE "in1"
OutHandle(s) == IF s = 0 THEN "out0" ELSE "out1"
Handles == { "in0", "in1", "out0", "out1", "reads" }

Range(q) == { q[k] : k \in 1 .. Len(q) }

\* The elements of q before h.
RECURSIVE Before(_, _)
Before(q, h) ==
  IF q = <<>> \/ Head(q) = h THEN {} ELSE { Head(q) } \cup Before(Tail(q), h)

\* for i, fn := range fq { inputs[i].Open(fn) }
InputHandles(a) == [ k \in 1 .. a.nfq |-> InHandle(k - 1) ]

\* outputs[i].Open(fn) under -out; outputs[i].Stdout() opens no file, and
\* -tab prepares no writer.
OutputHandles(a) ==
  IF a.Tab \/ a.OutPrefix = "" THEN <<>>
  ELSE [ k \in 1 .. a.nfq |-> OutHandle(k - 1) ]

\* main up to the name-list loop, `fail` the handle whose Open fails (if any):
\* how it ends and what it has opened by then.
SetupOutcome(a, fail) ==
  IF a.ReadsFilename = "" \/ a.nfq = 0
    THEN [ status |-> "config", opened |-> {} ]
  ELSE IF fail \in Range(InputHandles(a))
    THEN [ status |-> "open", opened |-> Before(InputHandles(a), fail) ]
  ELSE IF a.Tab /\ a.OutPrefix # ""
    THEN [ status |-> "config", opened |-> Range(InputHandles(a)) ]
  ELSE LET order == InputHandles(a) \o OutputHandles(a) \o << "reads" >>
       IN IF fail \in Range(order)
            THEN [ status |-> "open", opened |-> Before(order, fail) ]
            ELSE [ status |-> "index", opened |-> Range(order) ]

\* Whether the deferred Close calls run when the process ends this way: they
\* run when main returns and when a panic unwinds it, not under log.Fatal.
RunsDeferred(st) == st \in { "eof", "limit", "panic", "panic_index" }

\* ------------------------------------------------------------------- state

VARIABLES
  args,       \* the parsed flags, and nfq = len(fq)
  nlines,     \* per stream, the number of lines the input file holds
  reads,      \* the lines of the name list
  filter,     \* the NameSet
  status,     \* where the process is: "start", "loop", or how it ended
  consumed,   \* per stream, the lines its scanner has yielded so far
  i,          \* the stream index of the inner loop
  line_num,   \* the shared line counter
  enable,     \* the inclusion decision
  included,
  excluded,
  name,       \* the name extracted from stream 0's last header
  sequences,  \* per stream, the last sequence line
  outputs,    \* per stream, the characters written through outputs[i]
  stdout,     \* the characters written to the process's standard output
  reported,   \* whether the final counts were logged
  faulty,     \* whether the environment may fail an open or a read
  opened,     \* the handles opened so far
  closed,     \* the handles closed so far
  index_read  \* the lines the name list's scanner yielded

vars == << args, nlines, reads, filter, status, consumed, i, line_num, enable,
           included, excluded, name, sequences, outputs, stdout, reported,
           faulty, opened, closed, index_read >>

\* How a pass can end.
Ended ==
  { "eof", "limit", "format", "desync", "write", "panic", "config", "open",
    "panic_index" }

ArgsSet ==
  [ Invert : BOOLEAN, Limit : 0 .. MaxLimit, Tab : BOOLEAN,
    ShortName : BOOLEAN, OutPrefix : { "", "out" }, nfq : { 0, 1, 2 },
    ReadsFilename : { "", "names" } ]

\* The loop's state as one value, for the step functions below.
LoopState ==
  [ status |-> status, consumed |-> consumed, i |-> i, line_num |-> line_num,
    enable |-> enable, included |-> included, excluded |-> excluded,
    name |-> name, sequences |-> sequences, outputs |-> outputs,
    stdout |-> stdout, reported |-> reported ]

\* The state at the top of the loop: lines 213-230.
LoopStart(a) ==
  [ status |-> "loop",
    consumed |-> [ s \in Streams(a) |-> <<>> ],
    i |-> 0, line_num |-> 0,
    enable |-> a.Invert,
    included |-> 0, excluded |-> 0,
    name |-> <<>>,
    sequences |-> [ s \in Streams(a) |-> <<>> ],
    outputs |-> [ s \in Streams(a) |-> <<>> ],
    stdout |-> <<>>,
    reported |-> FALSE ]

\* ---------------------------------------------------- the loop, line by line

AtHeader(ln) == ln % 4 = 0

AtSequence(ln) == ln % 4 = 1

\* _, enable = filter[name]; if args.Invert { enable = !enable }
Decide(a, f, nm) == (nm \in f) # a.Invert

\* Mutant of LimitReached: the comparison is strict.
LimitReached_Strict(a, inc) == a.Limit > 0 /\ inc > a.Limit

\* args.Limit > 0 && included >= args.Limit
LimitReached(a, inc) == a.Limit > 0 /\ inc >= a.Limit

\* Stream 0's header: the name is extracted and the decision taken.
TakeDecision(a, f, s, line) ==
  LET nm == ShortNameOf(a.ShortName, StripSentinel(line))
  IN [ s EXCEPT !.name = nm, !.enable = Decide(a, f, nm) ]

\* Mutant of Count: every stream's sequence line counts the record.
Count_EveryStream(s, line) ==
  IF ~AtSequence(s.line_num) THEN s
  ELSE LET b == [ s EXCEPT !.sequences[s.i] = line ]
       IN IF b.enable THEN [ b EXCEPT !.included = @ + 1 ]
          ELSE [ b EXCEPT !.excluded = @ + 1 ]

\* A sequence line: it is buffered, and stream 0's counts the record.
Count(s, line) ==
  IF ~AtSequence(s.line_num) THEN s
  ELSE LET b == [ s EXCEPT !.sequences[s.i] = line ]
       IN IF s.i # 0 THEN b
          ELSE IF b.enable THEN [ b EXCEPT !.included = @ + 1 ]
          ELSE [ b EXCEPT !.excluded = @ + 1 ]

\* outputLine = name + "\t" + sequences[0] + ... + "\t" + sequences[len(fq)-1]
RECURSIVE JoinSequences(_, _, _)
JoinSequences(a, seqs, j) ==
  IF j >= a.nfq THEN <<>>
  ELSE <<TAB>> \o seqs[j] \o JoinSequences(a, seqs, j + 1)

TabLine(a, s) == s.name \o JoinSequences(a, s.sequences, 0)

\* Mutant of WriteLine: without -out each stream has a sink of its own.
WriteLine_OwnSink(a, s, line) ==
  [ s EXCEPT !.outputs[s.i] = @ \o line \o <<NL>> ]

\* io.WriteString(outputs[i], line+"\n"); without -out the writer is os.Stdout.
WriteLine(a, s, line) ==
  [ s EXCEPT !.outputs[s.i] = @ \o line \o <<NL>>,
             !.stdout = IF a.OutPrefix = "" THEN @ \o line \o <<NL>> ELSE @ ]

\* Mutant of Emit: the tabular line is printed at stream 0's sequence line.
Emit_AtFirstStream(a, s, line, wok) ==
  IF ~s.enable THEN s
  ELSE IF a.Tab
    THEN IF s.i = 0 /\ AtSequence(s.line_num)
           THEN [ s EXCEPT !.stdout = @ \o TabLine(a, s) \o <<NL>> ]
           ELSE s
    ELSE IF wok THEN WriteLine(a, s, line)
         ELSE [ s EXCEPT !.status = "write" ]

\* The emission of a line, gated on the decision; wok: the sink takes the write.
Emit(a, s, line, wok) ==
  IF ~s.enable THEN s
  ELSE IF a.Tab
    THEN IF s.i + 1 = a.nfq /\ AtSequence(s.line_num)
           THEN [ s EXCEPT !.stdout = @ \o TabLine(a, s) \o <<NL>> ]
           ELSE s
    ELSE IF wok THEN WriteLine(a, s, line)
         ELSE [ s EXCEPT !.status = "write" ]

\* Mutant of Advance: line_num advances after every line.
Advance_PerLine(a, s) ==
  LET n == [ s EXCEPT !.i = IF s.i + 1 < a.nfq THEN s.i + 1 ELSE 0,
                      !.line_num = @ + 1 ]
  IN IF LimitReached(a, n.included)
       THEN [ n EXCEPT !.status = "limit", !.reported = TRUE ]
       ELSE n

\* The end of the inner loop's body: the next stream, or, after the last one,
\* line_num++ and the limit check.
Advance(a, s) ==
  IF s.i + 1 < a.nfq THEN [ s EXCEPT !.i = @ + 1 ]
  ELSE LET n == [ s EXCEPT !.i = 0, !.line_num = @ + 1 ]
       IN IF LimitReached(a, n.included)
            THEN [ n EXCEPT !.status = "limit", !.reported = TRUE ]
            ELSE n

\* Mutant of ProcessLine: every stream's header takes the decision.
ProcessLine_EveryHeaderDecides(a, f, s, line, wok) ==
  LET k == s.i
      got == [ s EXCEPT !.consumed[k] = Append(@, line) ]
  IN IF AtHeader(s.line_num) /\ ~HasPrefix(line)
       THEN [ got EXCEPT !.status = "format" ]
     ELSE IF AtHeader(s.line_num) /\ a.ShortName
             /\ FieldsPanics(StripSentinel(line))
       THEN [ got EXCEPT !.status = "panic" ]
     ELSE LET s1 == IF AtHeader(s.line_num)
                      THEN TakeDecision(a, f, got, line) ELSE got
              s2 == Count(s1, line)
              s3 == Emit(a, s2, line, wok)
          IN IF s3.status # "loop" THEN s3 ELSE Advance(a, s3)

\* Mutant of ProcessLine: the sentinel is checked on stream 0's header only.
ProcessLine_ChecksStreamZero(a, f, s, line, wok) ==
  LET k == s.i
      got == [ s EXCEPT !.consumed[k] = Append(@, line) ]
  IN IF AtHeader(s.line_num) /\ k = 0 /\ ~HasPrefix(line)
       THEN [ got EXCEPT !.status = "format" ]
     ELSE IF AtHeader(s.line_num) /\ k = 0 /\ a.ShortName
             /\ FieldsPanics(StripSentinel(line))
       THEN [ got EXCEPT !.status = "panic" ]
     ELSE LET s1 == IF AtHeader(s.line_num) /\ k = 0
                      THEN TakeDecision(a, f, got, line) ELSE got
              s2 == Count(s1, line)
              s3 == Emit(a, s2, line, wok)
          IN IF s3.status # "loop" THEN s3 ELSE Advance(a, s3)

\* inputScanners[i].Scan() yielded `line`: the body of the inner loop.
ProcessLine(a, f, s, line, wok) ==
  LET k == s.i
      got == [ s EXCEPT !.consumed[k] = Append(@, line) ]
  IN IF AtHeader(s.line_num) /\ ~HasPrefix(line)
       THEN [ got EXCEPT !.status = "format" ]
     ELSE IF AtHeader(s.line_num) /\ k = 0 /\ a.ShortName
             /\ FieldsPanics(StripSentinel(line))
       THEN [ got EXCEPT !.status = "panic" ]
     ELSE LET s1 == IF AtHeader(s.line_num) /\ k = 0
                      THEN TakeDecision(a, f, got, line) ELSE got
              s2 == Count(s1, line)
              s3 == Emit(a, s2, line, wok)
          IN IF s3.status # "loop" THEN s3 ELSE Advance(a, s3)

\* Mutant of NoLine: a stream that yields no line is always an error.
NoLine_AlwaysDesync(s) == [ s EXCEPT !.status = "desync" ]

\* Mutant of NoLine: stream 0 yielding no line ends the pass unreported.
NoLine_Unreported(s) ==
  IF s.i = 0 THEN [ s EXCEPT !.status = "eof" ]
  ELSE [ s EXCEPT !.status = "desync" ]

\* Mutant of NoLine: any stream running out ends the pass successfully.
NoLine_SilentTruncation(s) ==
  [ s EXCEPT !.status = "eof", !.reported = TRUE ]

\* inputScanners[i].Scan() yielded nothing.
NoLine(s) ==
  IF s.i = 0 THEN [ s EXCEPT !.status = "eof", !.reported = TRUE ]
  ELSE [ s EXCEPT !.status = "desync" ]

\* The line counts the input files may have: max lines altogether.
LineCountsUpTo(a, max) ==
  { n \in [ Streams(a) -> 0 .. max ] :
      (IF a.nfq = 2 THEN n[0] + n[1] ELSE IF a.nfq = 1 THEN n[0] ELSE 0) <= max }

LineCounts(a) == LineCountsUpTo(a, MaxLines)

\* ----------------------------------------------------------------- actions

Install(s) ==
  /\ status' = s.status
  /\ consumed' = s.consumed
  /\ i' = s.i
  /\ line_num' = s.line_num
  /\ enable' = s.enable
  /\ included' = s.included
  /\ excluded' = s.excluded
  /\ name' = s.name
  /\ sequences' = s.sequences
  /\ outputs' = s.outputs
  /\ stdout' = s.stdout
  /\ reported' = s.reported

\* The process before main runs, but for the environment and the input.
Start ==
  /\ filter = {}
  /\ status = "start"
  /\ consumed = [ s \in Streams(args) |-> <<>> ]
  /\ i = 0
  /\ line_num = 0
  /\ enable = FALSE
  /\ included = 0
  /\ excluded = 0
  /\ name = <<>>
  /\ sequences = [ s \in Streams(args) |-> <<>> ]
  /\ outputs = [ s \in Streams(args) |-> <<>> ]
  /\ stdout = <<>>
  /\ reported = FALSE
  /\ opened = {}
  /\ closed = {}
  /\ index_read = 0

\* Every open and every read succeeds.
Init ==
  /\ args \in ArgsSet
  /\ nlines \in LineCounts(args)
  /\ reads \in NameLists
  /\ faulty = FALSE
  /\ Start

\* main up to the name-list loop: the flag checks and the opens, lines 142-200.
Setup ==
  /\ status = "start"
  /\ \E fail \in (IF faulty THEN Handles \cup { "none" } ELSE { "none" }) :
       LET r == SetupOutcome(args, fail)
       IN /\ status' = r.status
          /\ opened' = r.opened
  /\ UNCHANGED << args, nlines, reads, filter, consumed, i, line_num, enable,
                  included, excluded, name, sequences, outputs, stdout,
                  reported, faulty, closed, index_read >>

\* The name-list loop and the loop's variables, lines 202-230: the scanner
\* yields the first `got` lines of the list; it yields fewer than the list
\* holds when a read fails, which ends the loop like the end of the list.
BuildIndex ==
  /\ status = "index"
  /\ \E got \in (IF faulty THEN 0 .. Len(reads) ELSE { Len(reads) }) :
       LET list == SubSeq(reads, 1, got)
       IN /\ index_read' = got
          /\ IF BuildPanics(args.ShortName, list)
               THEN /\ status' = "panic_index"
                    /\ closed' = opened
                    /\ UNCHANGED << filter, consumed, i, line_num, enable,
                                    included, excluded, name, sequences,
                                    outputs, stdout, reported >>
               ELSE /\ filter' = BuildFilter(args.ShortName, list)
                    /\ Install(LoopStart(args))
                    /\ closed' = closed
  /\ UNCHANGED << args, nlines, reads, faulty, opened >>

\* The handles closed once the loop has taken the step to `s`.
Release(s) == IF RunsDeferred(s.status) THEN opened ELSE closed

\* One pass of the inner loop's body in which the scanner yields a line.
ScanLine ==
  /\ status = "loop"
  /\ Len(consumed[i]) < nlines[i]
  /\ \E line \in LinesAt(line_num), wok \in BOOLEAN :
       LET s == ProcessLine(args, filter, LoopState, line, wok)
       IN Install(s) /\ closed' = Release(s)
  /\ UNCHANGED << args, nlines, reads, filter, faulty, opened, index_read >>

\* One pass of the inner loop's body in which the scanner yields nothing: the
\* stream has no further line, or the read fails (an I/O or decompression
\* error, a line over the scanner's limit).
ScanNone ==
  /\ status = "loop"
  /\ Len(consumed[i]) = nlines[i] \/ faulty
  /\ LET s == NoLine(LoopState)
     IN Install(s) /\ closed' = Release(s)
  /\ UNCHANGED << args, nlines, reads, filter, faulty, opened, index_read >>

Next == Setup \/ BuildIndex \/ ScanLine \/ ScanNone

Spec == Init /\ [][Next]_vars

\* An open or a read may fail, and the name list may hold any line.
InitIO ==
  /\ args \in ArgsSet
  /\ nlines \in LineCountsUpTo(args, MaxIOLines)
  /\ reads \in IndexLists
  /\ faulty = TRUE
  /\ Start

SpecIO == InitIO /\ [][Next]_vars

\* ------------------------------------------------- vocabulary of the claims

\* The loop has ended, in whichever way.
LoopEnded == status \in { "eof", "limit", "format", "desync", "write", "panic" }

\* The lines, each followed by one newline, as one sequence of characters.
RECURSIVE Flat(_)
Flat(lines) ==
  IF lines = <<>> THEN <<>> ELSE Head(lines) \o <<NL>> \o Flat(Tail(lines))

\* The number of newline characters of a sink: the lines written to it.
RECURSIVE CountNL(_)
CountNL(chars) ==
  IF chars = <<>> THEN 0
  ELSE (IF Head(chars) = NL THEN 1 ELSE 0) + CountNL(Tail(chars))

Min(x, y) == IF x <= y THEN x ELSE y

\* The whole 4-line records among `lines`, and the records begun among them.
WholeRecords(lines) == Len(lines) \div 4
BegunRecords(lines) == (Len(lines) + 3) \div 4

\* The lines present of record r (counted from 0) among `lines`.
RecordOf(lines, r) == SubSeq(lines, 4 * r + 1, Min(4 * r + 4, Len(lines)))

\* The name of record r of stream 0's lines: its header, sentinel stripped,
\* reduced to its first whitespace-delimited token in short-name mode.
NameOfRecord(lines0, r) ==
  ShortNameOf(args.ShortName, StripSentinel(lines0[4 * r + 1]))

\* The lines present of the records of `lines` whose index is in M, in order,
\* from record r on.
RECURSIVE Pick(_, _, _)
Pick(lines, M, r) ==
  IF r >= BegunRecords(lines) THEN <<>>
  ELSE (IF r \in M THEN RecordOf(lines, r) ELSE <<>>) \o Pick(lines, M, r + 1)

\* Every header-position line of `lines` starts with '@'.
ValidHeaders(lines) ==
  \A p \in 1 .. Len(lines) : (p - 1) % 4 = 0 => HasPrefix(lines[p])

\* The sequences of k lines a stream may hold from line position pos on.
RECURSIVE LinesFrom(_, _)
LinesFrom(pos, k) ==
  IF k = 0 THEN { <<>> }
  ELSE { <<l>> \o rest : l \in LinesAt(pos), rest \in LinesFrom(pos + 1, k - 1) }

\* The lines stream s may hold unread: it holds nlines[s] lines in all.
Unread(s) == LinesFrom(Len(consumed[s]), nlines[s] - Len(consumed[s]))

\* The inputs the state is a run on: per stream, the lines read followed by
\* lines the stream may hold unread.
Inputs ==
  IF args.nfq = 1
    THEN { [ s \in Streams(args) |-> consumed[0] \o r0 ] : r0 \in Unread(0) }
    ELSE { [ s \in Streams(args) |->
               IF s = 0 THEN consumed[0] \o r0 ELSE consumed[1] \o r1 ] :
             r0 \in Unread(0), r1 \in Unread(1) }

\* The input is record-aligned: every stream has the same number of whole
\* records and nothing else.
RecordAligned ==
  \A s \in Streams(args) : nlines[s] % 4 = 0 /\ nlines[s] = nlines[0]

\* ------------------------------------------------------------------ claims

\* C1: in per-stream mode with invert=false and no match-limit, for every
\* record-aligned input whose header-position lines all start with '@', when
\* the pass has ended (no sink having rejected a write) stream s's sink holds
\* exactly, in order, the four lines, each followed by one newline, of the
\* records of stream s whose stream-0 header name is in the NameSet.
C1_FilteredOutput ==
  ( /\ LoopEnded
    /\ status # "write"
    /\ ~args.Tab /\ ~args.Invert /\ args.Limit = 0
    /\ RecordAligned
    /\ \A s \in Streams(args) : ValidHeaders(consumed[s]) )
  => \A in \in Inputs :
       (\A s \in Streams(args) : ValidHeaders(in[s]))
       => \A s \in Streams(args) :
            outputs[s] =
              Flat(Pick(in[s],
                        { r \in 0 .. WholeRecords(in[0]) - 1 :
                            NameOfRecord(in[0], r) \in filter },
                        0))

\* C2: in per-stream mode, however the pass ends, every sink holds whole
\* records only: the four lines of some of the stream's records, never only
\* some of a record's four lines.
C2_AtomicRecords ==
  (LoopEnded /\ ~args.Tab)
  => \A s \in Streams(args) :
       \E M \in SUBSET (0 .. WholeRecords(consumed[s]) - 1) :
         outputs[s] = Flat(Pick(consumed[s], M, 0))

\* C3: when the pass ends by the match-limit stop, the line counter is a
\* multiple of 4 and line_num lines, all four lines of the current record,
\* have been read from every stream.
C3_LimitAtRecordBoundary ==
  status = "limit"
  => /\ line_num % 4 = 0
     /\ \A s \in Streams(args) : Len(consumed[s]) = line_num

\* The process is in the loop or has left it.
InPass == status = "loop" \/ LoopEnded

\* C4 as stated: with match-limit K > 0 and invert=false (no sink rejecting a
\* write), included-count never exceeds K, a pass that has ended with
\* included-count = K has ended by the successful limit stop, and no line of
\* a record after the K-th included one has been read from any stream.
C4_LimitStopsSuccessfully ==
  (args.Limit > 0 /\ ~args.Invert /\ InPass /\ status # "write")
  => /\ included <= args.Limit
     /\ (included = args.Limit /\ LoopEnded) => status = "limit"
     /\ included = args.Limit
          => \A s \in Streams(args) : Len(consumed[s]) <= 4 * (included + excluded)

\* C4, amended: with match-limit K > 0 and invert=false, included-count never
\* exceeds K; once it equals K the engine is still at the sequence position
\* that counted the K-th record or has ended, by the successful limit stop or,
\* at that same position, by the desynchronization or a write error; the limit
\* stop is taken only with included-count = K; and no line of a record after
\* the K-th included one has been read from any stream.
C4_LimitStop ==
  (args.Limit > 0 /\ ~args.Invert /\ InPass)
  => /\ included <= args.Limit
     /\ status = "limit" => included = args.Limit
     /\ included = args.Limit
          => /\ status \in { "loop", "limit", "desync", "write" }
             /\ status # "limit"
                  => AtSequence(line_num) /\ Len(consumed[0]) = line_num + 1
             /\ \A s \in Streams(args) :
                  Len(consumed[s]) <= 4 * (included + excluded)

\* C4's case: the limit stop after an excluded and the K-th included record,
\* with a further record unread on stream 0.
C4_Witness ==
  /\ status = "limit" /\ ~args.Invert /\ args.Limit > 0
  /\ included = args.Limit /\ excluded >= 1
  /\ nlines[0] > 4 * (included + excluded)

\* C5 as stated: whenever the pass has ended, included + excluded is the
\* number of complete 4-line records read from stream 0.
C5_CountsCompleteRecords ==
  LoopEnded => included + excluded = WholeRecords(consumed[0])

\* C5, amended: at every moment of the pass, and so whenever it ends,
\* included + excluded is the number of records of which the sequence line
\* (the second line) has been read from stream 0.
C5_CountsSequenceLines ==
  InPass => included + excluded = (Len(consumed[0]) + 2) \div 4

\* C5's case: a pass over two streams that ended inside a record that was
\* counted, after an earlier record.
C5_Witness ==
  /\ LoopEnded /\ args.nfq = 2
  /\ included = 1 /\ excluded = 1
  /\ WholeRecords(consumed[0]) = 1

\* The tabular lines of the records of M, in order, from record r up to n - 1:
\* name, then each stream's sequence line, tab-separated.
RECURSIVE TabLinesOf(_, _, _)
TabLinesOf(M, r, n) ==
  IF r >= n THEN <<>>
  ELSE (IF r \in M
          THEN NameOfRecord(consumed[0], r)
               \o <<TAB>> \o consumed[0][4 * r + 2]
               \o (IF args.nfq = 2 THEN <<TAB>> \o consumed[1][4 * r + 2] ELSE <<>>)
               \o <<NL>>
          ELSE <<>>)
       \o TabLinesOf(M, r + 1, n)

\* The records of which the sequence line has been read from stream s.
SequencesRead(s) == (Len(consumed[s]) + 2) \div 4

\* The records, among the first n, that the decision includes.
IncludedAmong(n) ==
  { r \in 0 .. n - 1 : (NameOfRecord(consumed[0], r) \in filter) # args.Invert }

\* C6 as stated: in tabular mode, on every termination the shared destination
\* holds included-count lines: one line name, seq_0 .. seq_{N-1} per included
\* record, and nothing else.
C6_TabularCountsIncluded ==
  (args.Tab /\ LoopEnded)
  => /\ CountNL(stdout) = included
     /\ stdout = TabLinesOf(IncludedAmong(SequencesRead(0)), 0, SequencesRead(0))

\* C6, amended: in tabular mode, at every moment of the pass the shared
\* destination holds exactly one line name, seq_0 .. seq_{N-1}, in order, per
\* included record of which the last stream's sequence line has been
\* processed, and nothing else; the number of lines is included-count, less
\* one while (or when the pass ends, by the desynchronization error, where)
\* an included record has been counted at stream 0's sequence line and the
\* last stream's sequence line has not been processed.
C6_Tabular ==
  (args.Tab /\ InPass)
  => /\ stdout = TabLinesOf(IncludedAmong(SequencesRead(args.nfq - 1)), 0,
                            SequencesRead(args.nfq - 1))
     /\ CountNL(stdout) =
          included - (IF enable /\ SequencesRead(0) > SequencesRead(args.nfq - 1)
                        THEN 1 ELSE 0)
     /\ \A s \in Streams(args) : outputs[s] = <<>>

\* C6's case: a two-stream tabular pass that ended having emitted a line.
C6_Witness ==
  /\ args.Tab /\ args.nfq = 2 /\ status = "eof"
  /\ included = 1 /\ CountNL(stdout) = 1

\* C7 as stated: with two streams of which the second has fewer lines, a pass
\* that has ended (not by a format error, a write error or a panic) has ended
\* with the desynchronization error, at the first line position stream 1 has
\* no line for, and without the counts reported.
C7_ShorterSecondStreamDesyncs ==
  ( /\ args.nfq = 2 /\ nlines[1] < nlines[0] /\ LoopEnded
    /\ status \notin { "format", "write", "panic" } )
  => /\ status = "desync"
     /\ line_num = nlines[1]
     /\ ~reported

\* C7, amended: with two streams of which the second has fewer lines, the
\* pass never ends at the end of stream 0: it ends with the desynchronization
\* error at the first line position stream 1 has no line for, stream 0's line
\* of that position read, and without the counts reported, unless the
\* match-limit stop (limit > 0, included-count at the limit), a format error,
\* a write error or a panic ends it before.
C7_Desync ==
  (args.nfq = 2 /\ nlines[1] < nlines[0] /\ LoopEnded)
  => /\ status # "eof"
     /\ status = "limit" => (args.Limit > 0 /\ included >= args.Limit)
     /\ status = "desync"
          => /\ line_num = nlines[1]
             /\ Len(consumed[0]) = nlines[1] + 1
             /\ Len(consumed[1]) = nlines[1]
             /\ ~reported
     /\ \A s \in Streams(args) : Len(consumed[s]) <= nlines[1] + 1

\* C7's case: the desynchronization error after stream 1 gave its last line.
C7_Witness ==
  /\ args.nfq = 2 /\ status = "desync"
  /\ nlines[1] < nlines[0] /\ nlines[1] >= 5 /\ included = 1

\* C8: a header-position line without '@' halts the engine at that line with
\* the format error, and then no sink of any stream holds a line of the
\* record (line positions 4r .. 4r+3 of every stream) that contains the bad
\* header: every sink holds lines of earlier records only.
C8_FormatErrorWritesNothing ==
  /\ InPass
       => \A s \in Streams(args) : \A p \in 1 .. Len(consumed[s]) :
            ((p - 1) % 4 = 0 /\ ~HasPrefix(consumed[s][p]))
            => (status = "format" /\ p = Len(consumed[s]) /\ line_num = p - 1)
  /\ status = "format"
       => \A s \in Streams(args) :
            \E M \in SUBSET (0 .. (line_num \div 4) - 1) :
              outputs[s] = Flat(Pick(SubSeq(consumed[s], 1, line_num), M, 0))

\* The pass on input `in` from loop state s, every write taken.
RECURSIVE Replay(_, _, _, _)
Replay(a, f, in, s) ==
  IF s.status # "loop" THEN s
  ELSE LET k == s.i
           n == Len(s.consumed[k])
       IN IF n < Len(in[k])
            THEN Replay(a, f, in, ProcessLine(a, f, s, in[k][n + 1], TRUE))
            ELSE Replay(a, f, in, NoLine(s))

\* The pass on input `in` and the same name list with the invert flag flipped.
InvertedRun(in) ==
  LET a2 == [ args EXCEPT !.Invert = ~@ ]
  IN Replay(a2, filter, in, LoopStart(a2))

\* The tabular lines of the records of M among the first n records of `in`.
RECURSIVE TabLinesIn(_, _, _, _)
TabLinesIn(in, M, r, n) ==
  IF r >= n THEN <<>>
  ELSE (IF r \in M
          THEN NameOfRecord(in[0], r)
               \o <<TAB>> \o in[0][4 * r + 2]
               \o (IF args.nfq = 2 THEN <<TAB>> \o in[1][4 * r + 2] ELSE <<>>)
               \o <<NL>>
          ELSE <<>>)
       \o TabLinesIn(in, M, r + 1, n)

\* C9: with no match-limit, for every record-aligned input whose
\* header-position lines all start with '@', when the pass has ended (no sink
\* having rejected a write) and the pass on the same input and name list with
\* invert flipped has ended: the records of the input split into a set M and
\* its complement such that one pass emitted exactly the records of M and the
\* other exactly the others (per-stream sinks: their four lines; tabular:
\* their lines name, seq_0 ..), and included-count of each is excluded-count
\* of the other.
C9_InvertComplement ==
  ( /\ LoopEnded
    /\ status # "write"
    /\ args.Limit = 0
    /\ RecordAligned
    /\ \A s \in Streams(args) : ValidHeaders(consumed[s]) )
  => \A in \in Inputs :
       (\A s \in Streams(args) : ValidHeaders(in[s]))
       => LET o == InvertedRun(in)
              n == WholeRecords(in[0])
              all == 0 .. n - 1
          IN /\ o.included = excluded /\ o.excluded = included
             /\ \E M \in SUBSET all :
                  IF args.Tab
                    THEN /\ stdout = TabLinesIn(in, M, 0, n)
                         /\ o.stdout = TabLinesIn(in, all \ M, 0, n)
                    ELSE \A s \in Streams(args) :
                           /\ outputs[s] = Flat(Pick(in[s], M, 0))
                           /\ o.outputs[s] = Flat(Pick(in[s], all \ M, 0))

\* C10: with an empty name list, invert=true, no match-limit and per-stream
\* mode, for every input whose header-position lines all start with '@' (and,
\* with two streams, equal line counts), when the pass has ended (no sink
\* having rejected a write) stream s's sink holds the lines of input stream s,
\* all of them and in order, and excluded-count is 0.
C10_RoundTrip ==
  ( /\ LoopEnded
    /\ status # "write"
    /\ reads = <<>> /\ args.Invert /\ args.Limit = 0 /\ ~args.Tab
    /\ \A s \in Streams(args) : nlines[s] = nlines[0] /\ ValidHeaders(consumed[s]) )
  => \A in \in Inputs :
       (\A s \in Streams(args) : ValidHeaders(in[s]))
       => /\ \A s \in Streams(args) : outputs[s] = Flat(in[s])
          /\ excluded = 0

\* The name-list loop has run, to its end or to a panic.
IndexBuilt == status = "panic_index" \/ InPass

\* C11: for every name list (duplicate, empty and whitespace-only lines
\* included) read to its end and both settings of short-name mode, index
\* construction completes and the NameSet is exactly the set of the list's
\* lines, each verbatim, or reduced to its first whitespace-delimited token in
\* short-name mode.
C11_NameSet ==
  (IndexBuilt /\ index_read = Len(reads))
  => /\ status # "panic_index"
     /\ filter = { (IF args.ShortName THEN Fields(reads[k])[1] ELSE reads[k]) :
                     k \in 1 .. Len(reads) }

\* C12: when the name list cannot be read, at its open or at any of its
\* lines, the process ends before any line of an input stream is processed:
\* the loop never runs on a NameSet built from fewer lines than the list
\* holds, and after a failed open no line has been read.
C12_NameListUnreadable ==
  /\ InPass => index_read = Len(reads)
  /\ status = "open" => \A s \in Streams(args) : consumed[s] = <<>>

\* The process has exited: the end of stream 0, the match-limit stop, or a
\* fatal open, format, desynchronization or write error.
Exited == status \in { "eof", "limit", "open", "format", "desync", "write" }

\* The process has detected a fatal error.
FatalError == status \in { "open", "format", "desync", "write" }

\* C13: on every exit path every handle that had been opened is closed by
\* the time the process has exited, and once a fatal error is detected
\* nothing further is written to any sink.
C13_HandlesReleased ==
  /\ [](Exited => closed = opened)
  /\ [][FatalError => UNCHANGED << outputs, stdout >>]_vars

\* C14: when the process has ended by a configuration error (no -reads, no
\* input stream, -tab together with -out), no input stream, output sink or
\* name-list source has been opened or created.
C14_ConfigErrorBeforeOpen ==
  status = "config" => opened = {}

\* C15: when stream 0 has no further line at the start of an iteration, the
\* step taken ends the pass successfully with the counts reported, and reads
\* and writes nothing; at the end of stream 0 every stream has given line_num
\* lines, whatever the secondary stream still holds.
C15_StreamZeroEnds ==
  /\ [][(status = "loop" /\ i = 0 /\ Len(consumed[0]) = nlines[0])
          => /\ status' = "eof"
             /\ reported'
             /\ UNCHANGED << consumed, outputs, stdout, included, excluded >>]_vars
  /\ [](status = "eof"
          => \A s \in Streams(args) : Len(consumed[s]) = line_num)

\* C15's case: the pass ended at the end of stream 0, a record included, with
\* lines of stream 1 left unread.
C15_Witness ==
  /\ status = "eof" /\ args.nfq = 2
  /\ nlines[1] > nlines[0] /\ nlines[0] >= 4
  /\ included >= 1 /\ reported

\* The step reads stream 0's line at a header position and takes the decision.
DecisionStep ==
  /\ i = 0 /\ AtHeader(line_num)
  /\ Len(consumed'[0]) = Len(consumed[0]) + 1
  /\ status' \notin { "format", "panic" }

\* The lines of stream s that have passed the emission step: the lines read,
\* but for the line at which the pass ended before emitting it.
Written(s) ==
  IF status \in { "format", "write", "panic" } /\ s = i
    THEN SubSeq(consumed[s], 1, Len(consumed[s]) - 1)
    ELSE consumed[s]

\* C16: in the loop the decision changes only in the step that processes
\* stream 0's line at a header position, which sets it to (extracted name in
\* NameSet) XOR invert; every other step leaves it unchanged; and in
\* per-stream mode every sink holds exactly the processed lines of its stream
\* that belong to the records stream 0's headers include.
C16_DecisionFrame ==
  /\ [][status = "loop"
          => IF DecisionStep
               THEN enable' =
                      ((NameOfRecord(consumed'[0], line_num \div 4) \in filter)
                         # args.Invert)
               ELSE enable' = enable]_vars
  /\ []((InPass /\ ~args.Tab)
          => \A s \in Streams(args) :
               outputs[s] =
                 Flat(Pick(Written(s),
                           IncludedAmong(BegunRecords(consumed[0])), 0)))

\* C16's case: a record included by stream 0's header and written on stream 1
\* too, whose header there carries another name.
C16_Witness ==
  /\ InPass /\ args.nfq = 2 /\ ~args.Tab /\ enable
  /\ Len(consumed[1]) >= 4
  /\ consumed[1][1] # consumed[0][1]
  /\ outputs[1] # <<>>

\* C17: a step of the loop that reads a line ends with the format error
\* exactly when the line is at a header position, of whichever stream, and
\* does not start with '@'.
C17_SentinelCheck ==
  [][(status = "loop" /\ consumed' # consumed)
       => (status' = "format"
             <=> (AtHeader(line_num)
                    /\ ~HasPrefix(consumed'[i][Len(consumed'[i])])))]_vars

\* C17's case: the format error on stream 1's header of the second record,
\* stream 0's header there valid, after sequence and quality lines that start
\* with '@' were read.
C17_Witness ==
  /\ status = "format" /\ i = 1 /\ line_num = 4
  /\ HasPrefix(consumed[0][5])
  /\ HasPrefix(consumed[0][2]) /\ HasPrefix(consumed[1][4])

\* C18: in every state of the loop each stream has given line_num or
\* line_num + 1 lines, a stream never fewer than a later one; and line_num
\* changes only by one, in a step after which every stream has given exactly
\* line_num lines.
C18_Lockstep ==
  /\ [](InPass
          => /\ \A s \in Streams(args) :
                  Len(consumed[s]) \in { line_num, line_num + 1 }
             /\ \A s, u \in Streams(args) :
                  s <= u => Len(consumed[s]) >= Len(consumed[u]))
  /\ [][(status = "loop" /\ line_num' # line_num)
          => /\ line_num' = line_num + 1
             /\ \A s \in Streams(args) : Len(consumed'[s]) = line_num']_vars

\* C18's case: inside the second record of two streams, stream 0 one line
\* ahead of stream 1.
C18_Witness ==
  /\ status = "loop" /\ args.nfq = 2 /\ i = 1 /\ line_num = 5
  /\ Len(consumed[0]) = 6 /\ Len(consumed[1]) = 5

\* The included lines of two streams in line-position order, stream 0's line
\* of a position before stream 1's, from position p on.
RECURSIVE Interleaved(_, _, _)
Interleaved(w, M, p) ==
  IF p >= Len(w[0]) THEN <<>>
  ELSE (IF (p \div 4) \in M
          THEN w[0][p + 1] \o <<NL>>
               \o (IF p < Len(w[1]) THEN w[1][p + 1] \o <<NL>> ELSE <<>>)
          ELSE <<>>)
       \o Interleaved(w, M, p + 1)

\* C19: in per-stream mode with two streams and no output prefix, standard
\* output holds the included lines of both streams in line-position order,
\* line p of stream 0, then line p of stream 1, then line p + 1 of stream 0.
C19_StdoutInterleaved ==
  (InPass /\ ~args.Tab /\ args.OutPrefix = "" /\ args.nfq = 2)
  => stdout = Interleaved([ s \in Streams(args) |-> Written(s) ],
                          IncludedAmong(BegunRecords(consumed[0])), 0)

\* C19's case: a whole included record of two streams on standard output.
C19_Witness ==
  /\ status = "eof" /\ ~args.Tab /\ args.OutPrefix = "" /\ args.nfq = 2
  /\ included = 1 /\ Len(consumed[1]) = 4
  /\ stdout # <<>>

\* C20: a step of the loop in which the read yields no line, for whatever
\* reason, ends the pass: successfully with the counts reported on stream 0,
\* with the desynchronization error and no counts on a secondary stream.
C20_FailedRead ==
  [][(status = "loop" /\ consumed' = consumed)
       => IF i = 0 THEN status' = "eof" /\ reported'
          ELSE status' = "desync" /\ ~reported']_vars

\* C20's case: the pass ended successfully on a failed read of stream 0,
\* lines of it unread.
C20_Witness ==
  /\ faulty /\ status = "eof" /\ reported
  /\ Len(consumed[0]) < nlines[0]
  /\ Len(consumed[0]) >= 2

====
